---- MODULE Spec2Model ----
(***************************************************************************)
(* Verification model of ubuntu-app-launch:                                *)
(*   - the desktop-file reconciler      (src/desktop-hook.c)               *)
(*   - the launch tool                  (src/tools/upstart-app-launch.c)   *)
(*   - the Snap application store       (src/libubuntu-app-launch/         *)
(*                                       app-store-snap.cpp)               *)
(* Each program is a state machine of its own (HookSpec, LaunchSpec,       *)
(* SnapSpec) over its own variables; the variables of the other programs   *)
(* stay at their idle values.                                              *)
(*                                                                         *)
(* File names are sequences of tokens: "click-" and ".desktop" are the     *)
(* prefix and suffix literals of desktop-hook.c, every other token stands  *)
(* for a piece of text containing neither.                                 *)
(***************************************************************************)
EXTENDS Integers, Sequences, FiniteSets, TLC

\* ------------------------------------------------------------------ bounds
\* number of distinct click identities that may be installed
NumIds == 2
\* notifications the environment raises during one run of the launch tool
MaxEvents == 3
\* longest application name handed to the Snap store
MaxNameLen == 3
\* creation times of the files present before the pass are 1..MaxTime
MaxTime == 2
\* operations of one reconciliation pass that the environment makes fail
MaxFaults == 1
NumApps == 2
NumSizeDirs == 4
NumRaceIds == 1

\* ========================================================================
\*                    DESKTOP-FILE RECONCILER (desktop-hook.c)
\* ========================================================================

VARIABLES
    argc,             \* main's argc
    symlinkKind,      \* <cache>/upstart-app-launch/desktop: "absent" | "dir"
    clickFiles,       \* entry name -> creation time, the click directory
    desktopKind,      \* <data>/applications: "absent" | "dir"
    desktopFiles,     \* file name -> [ctime, content], the desktop directory
    now,              \* the clock: creation time of the next file written
    pc,               \* position of main()
    apparray,         \* GArray of app_state_t
    i,                \* loop index of the merge loop (1-based)
    desktopdirexists, \* main's local desktopdirexists
    processed,        \* per merged entry: what the loop did with it
    faults,           \* operations of the pass the environment made fail
    retcode           \* exit status, -1 while running

hookVars == <<argc, symlinkKind, clickFiles, desktopKind, desktopFiles, now, pc,
              apparray, i, desktopdirexists, processed, faults, retcode>>

\* the launch tool (tools/upstart-app-launch.c)
VARIABLES
    targc,            \* main's argc
    targv1,           \* argv[1], the requested app id
    global_appid,     \* the global of that name, "NULL" before main sets it
    retval,           \* the global of that name
    tpc,              \* position of main()
    observers,        \* the observer kinds registered with the library
    launched,         \* upstart_app_launch_start_application was called
    quit,             \* g_main_loop_quit was called on mainloop
    pending,          \* notifications queued in the main context
    emitted,          \* number of notifications raised so far
    seen,             \* the notifications dispatched to an observer, in order
    texit             \* exit status of the tool, -1 while running

toolVars == <<targc, targv1, global_appid, retval, tpc, observers, launched, quit,
              pending, emitted, seen, texit>>

\* the Snap application store (app-store-snap.cpp)
VARIABLES
    snapdInfo,        \* the package daemon: package -> PkgInfo or NoInfo
    sop,              \* the store operation called, "none" before the call
    sargs,            \* the arguments of the call: package, appname, version
    sresult,          \* what it returned or threw
    squeries,         \* pkgInfo queries it issued
    serror,           \* a pkgInfo query of the call met a daemon error
    scard,            \* the wildcard argument of findAppname, "none" otherwise
    svalue,           \* the app name or the list of handles returned, else <<>>
    sifaces,          \* the interfaces list asked the daemon for, in order
    snapApps,         \* the daemon: interface -> the AppIDs using it
    snapBroken        \* the <<AppID, interface>> whose handle cannot be built

snapVars == <<snapdInfo, sop, sargs, sresult, squeries, serror, scard, svalue,
              sifaces, snapApps, snapBroken>>

\* the icon finder (application-icon-finder.cpp)
VARIABLES
    ibase,            \* _basePath
    idirs,            \* the directories of the file system
    ifiles,           \* the regular files of the file system
    iindex,           \* theme directory -> the content of its index.theme
    searchPaths,      \* _searchPaths, a sequence of ThemeSubdirectory
    iop,              \* "none" before the call, then "find"
    iname,            \* the iconName argument of find
    iresult           \* what find returned, or that it does not return

iconVars == <<ibase, idirs, ifiles, iindex, searchPaths, iop, iname, iresult>>

\* a second pass of the reconciler, and two passes running at once
VARIABLES
    pass,             \* the number of the pass main() is in: 1 or 2
    prevok,           \* every action of the pass before succeeded
    rproc,            \* the two concurrent passes: position and locals of each
    rstart            \* the desktop directory the concurrent passes started on

passVars == <<pass, prevok>>
raceVars == <<rproc, rstart>>

extVars == <<iconVars, passVars, raceVars>>

vars == <<hookVars, toolVars, snapVars, extVars>>

IdTok == <<"a", "b", "c", "d">>

\* the click identities: names of the entries of the click directory
Ids == { <<IdTok[k]>> : k \in 1..NumIds }

Times == 1..MaxTime

\* "click-%s.desktop" (desktop-hook.c:217, 233)
DesktopFileName(app_id) == <<"click-">> \o app_id \o <<".desktop">>

\* a generated file whose identity itself contains ".desktop"
DottedId == <<IdTok[1], ".desktop">>

\* names that may be present in the desktop directory before the pass
GeneratedNames == { DesktopFileName(id) : id \in Ids \cup {DottedId} }
ForeignNames == { <<IdTok[1], ".desktop">>, <<"click-", IdTok[1]>> }
DesktopNames == GeneratedNames \cup ForeignNames
\* the names no click identity generates
ExtraNames == ForeignNames \cup {DesktopFileName(DottedId)}

\* g_str_has_suffix(name, ".desktop")
HasSuffix(name) == Len(name) > 0 /\ name[Len(name)] = ".desktop"
\* g_str_has_prefix(name, "click-")
HasPrefix(name) == Len(name) > 0 /\ name[1] = "click-"

\* position of the first ".desktop" in s, 0 when there is none (g_strstr_len)
StrStr(s) ==
    IF \E k \in 1..Len(s) : s[k] = ".desktop"
    THEN CHOOSE k \in 1..Len(s) : s[k] = ".desktop" /\ \A j \in 1..(k-1) : s[j] # ".desktop"
    ELSE 0

\* name + strlen("click-"), cut at the first ".desktop" (desktop-hook.c:104-105)
AppIdOfDesktopName(name) ==
    LET rest == Tail(name)
    IN  SubSeq(rest, 1, StrStr(rest) - 1)

\* creation_time(dir, filename): the creation time of the file, 0 when the
\* query yields no value
creation_time(times, name) == IF name \in DOMAIN times THEN times[name] ELSE 0

\* index of the entry named name in the array, 0 when there is none
IndexOf(name, arr) ==
    IF \E k \in 1..Len(arr) : arr[k].app_id = name
    THEN CHOOSE k \in 1..Len(arr) : arr[k].app_id = name /\ \A j \in 1..(k-1) : arr[j].app_id # name
    ELSE 0

NewState(name) == [app_id |-> name, has_click |-> FALSE, has_desktop |-> FALSE,
                   click_created |-> 0, desktop_created |-> 0]

\* find_app_entry: the array with an entry for name (appended when missing)
find_app_entry(name, arr) ==
    IF IndexOf(name, arr) # 0 THEN arr ELSE Append(arr, NewState(name))

add_click_package(times, name, arr) ==
    LET a == find_app_entry(name, arr)
        k == IndexOf(name, a)
    IN  [a EXCEPT ![k].has_click = TRUE,
                  ![k].click_created = creation_time(times, name)]

\* variant: the "click-" prefix is not required
add_desktop_file_AnyPrefix(times, name, arr) ==
    IF ~HasSuffix(name) THEN arr
    ELSE LET appid == AppIdOfDesktopName(name)
             a == find_app_entry(appid, arr)
             k == IndexOf(appid, a)
         IN  [a EXCEPT ![k].has_desktop = TRUE,
                       ![k].desktop_created = creation_time(times, name)]

\* add_desktop_file (lines 93-113)
add_desktop_file(times, name, arr) ==
    IF ~HasSuffix(name) THEN arr
    ELSE IF ~HasPrefix(name) THEN arr
    ELSE LET appid == AppIdOfDesktopName(name)
             a == find_app_entry(appid, arr)
             k == IndexOf(appid, a)
         IN  [a EXCEPT ![k].has_desktop = TRUE,
                       ![k].desktop_created = creation_time(times, name)]

\* all orders in which g_dir_read_name may return the entries S
RECURSIVE Orders(_)
Orders(S) ==
    IF S = {} THEN {<<>>}
    ELSE UNION { { <<x>> \o o : o \in Orders(S \ {x}) } : x \in S }

\* dir_for_each: func applied to every entry, in the order the directory
\* stream returns them
RECURSIVE dir_for_each(_, _, _, _)
dir_for_each(func, times, order, arr) ==
    IF order = <<>> THEN arr
    ELSE dir_for_each(func, times, Tail(order),
                      IF func = "add_click_package"
                      THEN add_click_package(times, Head(order), arr)
                      ELSE add_desktop_file(times, Head(order), arr))

\* the creation times of the files of the desktop directory
DesktopTimes(files) == [n \in DOMAIN files |-> files[n].ctime]

\* ---- desktop entry contents: the keys of group "Desktop Entry" ----------
\* a value is a sequence of tokens, <<>> when the key is absent
OldContent == [Exec |-> <<"stale">>, Path |-> <<"stale">>,
               XCanonicalOldPath |-> <<"stale">>, Other |-> <<"old">>]

\* the package's own desktop file, as manifest_to_desktop finds it and
\* g_key_file_load_from_file reads it: the first package sets a Path, the
\* others do not
SourceDesktop(app_id) ==
    [Exec |-> <<"cmd">>,
     Path |-> IF app_id = <<IdTok[1]>> THEN <<"/pkgpath">> ELSE <<>>,
     XCanonicalOldPath |-> <<>>,
     Other |-> <<"src">>]

\* desktop_to_exec: the Exec key, NULL (<<>>) when there is none
desktop_to_exec(keyfile) == keyfile.Exec

\* copy_desktop_file, lines 162-178: the key file written for app_id
NewKeyfile(keyfile, app_id) ==
    [ Exec |-> <<"aa-exec", "-p">> \o app_id \o <<"--">> \o desktop_to_exec(keyfile),
      Path |-> <<"symlinkdir">> \o app_id,
      XCanonicalOldPath |-> IF keyfile.Path # <<>> THEN keyfile.Path
                            ELSE keyfile.XCanonicalOldPath,
      Other |-> keyfile.Other ]

\* the points at which build_desktop_file / copy_desktop_file give up
BuildFailures == {"triplet", "manifest", "parse", "exec", "serialize", "write"}

\* how a build ends: "fail" at the first failing step, "ok" when none fails.
\* fail is the step the environment makes fail, keyfile the source read,
\* dirkind the state of the desktop directory (g_file_set_contents fails
\* without it).
BuildOutcome(fail, keyfile, dirkind) ==
    IF fail \in {"triplet", "manifest", "parse"} THEN "fail"
    ELSE IF fail = "exec" \/ desktop_to_exec(keyfile) = <<>> THEN "fail"
    ELSE IF fail = "serialize" THEN "fail"
    ELSE IF fail = "write" \/ dirkind # "dir" THEN "fail"
    ELSE "ok"

\* g_unlink(path) succeeds
UnlinkOk(files, name, fail) == name \in DOMAIN files /\ ~fail

\* remove_desktop_file: the directory after it
remove_desktop_file(files, app_id, fail) ==
    IF UnlinkOk(files, DesktopFileName(app_id), fail)
    THEN [n \in DOMAIN files \ {DesktopFileName(app_id)} |-> files[n]]
    ELSE files

\* build_desktop_file: the directory after it
build_desktop_file(files, app_id, outcome, keyfile, t) ==
    IF outcome = "ok"
    THEN [n \in DOMAIN files \cup {DesktopFileName(app_id)} |->
            IF n = DesktopFileName(app_id)
            THEN [ctime |-> t, content |-> NewKeyfile(keyfile, app_id)]
            ELSE files[n]]
    ELSE files

\* variant: build first, remove afterwards
update_desktop_file_BuildFirst(files, app_id, rmfail, outcome, keyfile, t) ==
    remove_desktop_file(build_desktop_file(files, app_id, outcome, keyfile, t),
                        app_id, rmfail)

\* lines 285-287: remove, then build
update_desktop_file(files, app_id, rmfail, outcome, keyfile, t) ==
    build_desktop_file(remove_desktop_file(files, app_id, rmfail),
                       app_id, outcome, keyfile, t)

\* variant: equal creation times count as newer
ClickNewer_OrEqual(state) == state.click_created >= state.desktop_created

\* line 282: the click entry is newer than the desktop file
ClickNewer(state) == state.click_created > state.desktop_created

\* lines 281-307: what the merge loop decides for one entry
ActionOf(state) ==
    IF state.has_click /\ state.has_desktop
    THEN (IF ClickNewer(state) THEN "update" ELSE "noop")
    ELSE IF state.has_click THEN "create"
    ELSE IF state.has_desktop THEN "remove"
    ELSE "none"

\* variant: a failed action ends the loop
NextIndex_StopOnFailure(idx, failed, len) == IF failed THEN len + 1 ELSE idx + 1

\* line 277: the index the loop goes on with after entry idx
NextIndex(idx, failed, len) == idx + 1

\* lines 259, 268: g_file_test(symlinkdir, G_FILE_TEST_EXISTS | G_FILE_TEST_IS_DIR)
SymlinkDirTest == symlinkKind # "absent"

\* line 268: the test that guards the scan of the desktop directory
DesktopScanTest == SymlinkDirTest

\* ---- the idle values of the three programs ------------------------------
HookIdle ==
    /\ argc = 1 /\ symlinkKind = "absent" /\ clickFiles = <<>>
    /\ desktopKind = "absent" /\ desktopFiles = <<>> /\ now = MaxTime + 1
    /\ pc = "idle" /\ apparray = <<>> /\ i = 1 /\ desktopdirexists = FALSE
    /\ processed = <<>> /\ faults = 0 /\ retcode = -1

ToolIdle ==
    /\ targc = 1 /\ targv1 = "NULL" /\ global_appid = "NULL" /\ retval = 0
    /\ tpc = "idle" /\ observers = {} /\ launched = FALSE /\ quit = FALSE
    /\ pending = <<>> /\ emitted = 0 /\ seen = <<>> /\ texit = -1

NoArgs == [package |-> "", appname |-> <<>>, version |-> ""]
NoResult == [kind |-> "none", val |-> ""]

SnapIdle ==
    /\ snapdInfo = <<>> /\ sop = "none" /\ sargs = NoArgs /\ sresult = NoResult
    /\ squeries = 0 /\ serror = FALSE
    /\ scard = "none" /\ svalue = <<>> /\ sifaces = <<>>
    /\ snapApps = <<>> /\ snapBroken = {}

NoIcon == [kind |-> "none", path |-> <<>>]

IconIdle ==
    /\ ibase = <<>> /\ idirs = {} /\ ifiles = {} /\ iindex = <<>>
    /\ searchPaths = <<>> /\ iop = "none" /\ iname = <<>> /\ iresult = NoIcon

PassIdle == pass = 1 /\ prevok = FALSE
RaceIdle == rproc = <<>> /\ rstart = <<>>

ExtIdle == IconIdle /\ PassIdle /\ RaceIdle

\* ---- the reconciliation pass --------------------------------------------
\* The state main() starts in: both directories in any state the file system
\* allows, every file created at or before the present; besides the files
\* of the click identities at most one other file (a foreign file or the
\* file of the dotted identity), created at time 1. A run with arguments never looks at the directories.
HookInit ==
    /\ argc \in {1, 2}
    /\ symlinkKind \in {"absent", "dir"}
    /\ desktopKind \in {"absent", "dir"}
    /\ argc # 1 => (symlinkKind = "absent" /\ desktopKind = "absent")
    /\ \E S \in SUBSET Ids :
          /\ symlinkKind = "absent" => S = {}
          /\ clickFiles \in [S -> Times]
    /\ \E G \in SUBSET { DesktopFileName(id) : id \in Ids },
          X \in {{}} \cup {{x} : x \in ExtraNames} :
          /\ desktopKind = "absent" => (G = {} /\ X = {})
          /\ \E gt \in [G -> Times] :
                desktopFiles = [n \in G \cup X |->
                                  [ctime |-> IF n \in G THEN gt[n] ELSE 1,
                                   content |-> OldContent]]
    /\ now = MaxTime + 1
    /\ pc = "start"
    /\ apparray = <<>>
    /\ i = 1
    /\ desktopdirexists = FALSE
    /\ processed = <<>>
    /\ faults = 0
    /\ retcode = -1
    /\ ToolIdle /\ SnapIdle /\ ExtIdle

\* the environment makes n more operations fail, within its budget
Faults(failed) == IF failed THEN 1 ELSE 0
Inject(n) == faults + n <= MaxFaults /\ faults' = faults + n

\* lines 250-253: g_error aborts the process when arguments are given
CheckArgs ==
    /\ pc = "start"
    /\ pc' = IF argc # 1 THEN "aborted" ELSE "scan_click"
    /\ UNCHANGED <<argc, symlinkKind, clickFiles, desktopKind, desktopFiles, now,
                   apparray, i, desktopdirexists, processed, faults, retcode>>
    /\ UNCHANGED <<toolVars, snapVars, extVars>>

\* lines 257-263: scan of the click directory (g_dir_open may fail)
ScanClick ==
    /\ pc = "scan_click"
    /\ \E openfail \in BOOLEAN :
          /\ apparray' \in IF SymlinkDirTest /\ ~openfail
                            THEN { dir_for_each("add_click_package", clickFiles, order, apparray) :
                                     order \in Orders(DOMAIN clickFiles) }
                            ELSE {apparray}
          /\ Inject(Faults(openfail))
    /\ pc' = "scan_desktop"
    /\ UNCHANGED <<argc, symlinkKind, clickFiles, desktopKind, desktopFiles, now,
                   i, desktopdirexists, processed, retcode>>
    /\ UNCHANGED <<toolVars, snapVars, extVars>>

\* lines 265-273: scan of the desktop directory
ScanDesktop ==
    /\ pc = "scan_desktop"
    /\ \E openfail \in BOOLEAN :
          /\ apparray' \in IF DesktopScanTest /\ desktopKind = "dir" /\ ~openfail
                            THEN { dir_for_each("add_desktop_file", DesktopTimes(desktopFiles),
                                                order, apparray) :
                                     order \in Orders(DOMAIN desktopFiles) }
                            ELSE {apparray}
          /\ Inject(Faults(openfail))
    /\ desktopdirexists' = DesktopScanTest
    /\ pc' = "merge"
    /\ UNCHANGED <<argc, symlinkKind, clickFiles, desktopKind, desktopFiles, now,
                   i, processed, retcode>>
    /\ UNCHANGED <<toolVars, snapVars, extVars>>


NoOps == [unlink |-> "none", mkdir |-> "none", build |-> "none"]

\* lines 281-287: click newer, remove and rebuild
ProcessUpdate(state) ==
    /\ ActionOf(state) = "update"
    /\ \E rmfail \in BOOLEAN, fail \in BuildFailures \cup {"none"} :
         LET keyfile == SourceDesktop(state.app_id)
             rmok == UnlinkOk(desktopFiles, DesktopFileName(state.app_id), rmfail)
             outcome == BuildOutcome(fail, keyfile, desktopKind)
         IN  /\ desktopFiles' = update_desktop_file(desktopFiles, state.app_id, rmfail,
                                                    outcome, keyfile, now)
             /\ now' = IF outcome = "ok" THEN now + 1 ELSE now
             /\ processed' = Append(processed,
                    [app_id |-> state.app_id, action |-> "update",
                     unlink |-> IF rmok THEN "ok" ELSE "fail",
                     mkdir |-> "none", build |-> outcome])
             /\ i' = NextIndex(i, ~rmok \/ outcome # "ok", Len(apparray))
             /\ Inject(Faults(rmfail) + Faults(fail # "none"))
    /\ UNCHANGED <<desktopKind, desktopdirexists>>

\* lines 288-290: already synchronized
ProcessNoop(state) ==
    /\ ActionOf(state) \in {"noop", "none"}
    /\ processed' = Append(processed,
           [app_id |-> state.app_id, action |-> ActionOf(state)] @@ NoOps)
    /\ i' = NextIndex(i, FALSE, Len(apparray))
    /\ UNCHANGED <<desktopKind, desktopFiles, now, desktopdirexists, faults>>

\* lines 291-303: click only, make the directory when needed and build
ProcessCreate(state) ==
    /\ ActionOf(state) = "create"
    /\ \E mkfail \in BOOLEAN, fail \in BuildFailures \cup {"none"} :
         LET keyfile == SourceDesktop(state.app_id)
             domkdir == ~desktopdirexists
             mkok == domkdir /\ ~mkfail
             kind == IF mkok THEN "dir" ELSE desktopKind
             exists == desktopdirexists \/ mkok
             outcome == IF exists THEN BuildOutcome(fail, keyfile, kind) ELSE "none"
         IN  /\ desktopKind' = kind
             /\ desktopdirexists' = exists
             /\ desktopFiles' = IF exists
                                THEN build_desktop_file(desktopFiles, state.app_id,
                                                        outcome, keyfile, now)
                                ELSE desktopFiles
             /\ now' = IF outcome = "ok" THEN now + 1 ELSE now
             /\ processed' = Append(processed,
                    [app_id |-> state.app_id, action |-> "create", unlink |-> "none",
                     mkdir |-> IF ~domkdir THEN "none" ELSE IF mkok THEN "ok" ELSE "fail",
                     build |-> outcome])
             /\ i' = NextIndex(i, outcome # "ok", Len(apparray))
             /\ Inject(Faults(mkfail /\ domkdir) + Faults(fail # "none"))

\* lines 304-307: desktop file only, remove it
ProcessRemove(state) ==
    /\ ActionOf(state) = "remove"
    /\ \E rmfail \in BOOLEAN :
         LET rmok == UnlinkOk(desktopFiles, DesktopFileName(state.app_id), rmfail)
         IN  /\ desktopFiles' = remove_desktop_file(desktopFiles, state.app_id, rmfail)
             /\ processed' = Append(processed,
                    [app_id |-> state.app_id, action |-> "remove",
                     unlink |-> IF rmok THEN "ok" ELSE "fail",
                     mkdir |-> "none", build |-> "none"])
             /\ i' = NextIndex(i, ~rmok, Len(apparray))
             /\ Inject(Faults(rmfail))
    /\ UNCHANGED <<desktopKind, now, desktopdirexists>>

\* lines 277-310: one iteration of the merge loop
ProcessEntry ==
    /\ pc = "merge"
    /\ i <= Len(apparray)
    /\ \/ ProcessUpdate(apparray[i])
       \/ ProcessNoop(apparray[i])
       \/ ProcessCreate(apparray[i])
       \/ ProcessRemove(apparray[i])
    /\ UNCHANGED <<argc, symlinkKind, clickFiles, pc, apparray, retcode>>
    /\ UNCHANGED <<toolVars, snapVars, extVars>>

\* lines 312-316: the loop is over, return 0
HookExit ==
    /\ pc = "merge"
    /\ i > Len(apparray)
    /\ pc' = "done"
    /\ retcode' = 0
    /\ UNCHANGED <<argc, symlinkKind, clickFiles, desktopKind, desktopFiles, now,
                   apparray, i, desktopdirexists, processed, faults>>
    /\ UNCHANGED <<toolVars, snapVars, extVars>>

HookNext == CheckArgs \/ ScanClick \/ ScanDesktop \/ ProcessEntry \/ HookExit

HookSpec == HookInit /\ [][HookNext]_vars

\* ---- a pass followed by a second pass ---------------------------------------
\* an entry of the pass log whose unlink, mkdir or build failed
Failed(entry) == entry.unlink = "fail" \/ entry.mkdir = "fail" \/ entry.build = "fail"

\* main() is started again when the first pass has returned: the directories
\* are as that pass left them, the locals are fresh
Restart ==
    /\ pc = "done" /\ pass = 1
    /\ pass' = 2
    /\ prevok' = (faults = 0 /\ \A k \in 1..Len(processed) : ~Failed(processed[k]))
    /\ pc' = "start"
    /\ apparray' = <<>> /\ i' = 1 /\ desktopdirexists' = FALSE
    /\ processed' = <<>> /\ retcode' = -1
    /\ UNCHANGED <<argc, symlinkKind, clickFiles, desktopKind, desktopFiles, now, faults>>
    /\ UNCHANGED <<toolVars, snapVars, iconVars, raceVars>>

TwoPassNext == HookNext \/ Restart

TwoPassSpec == HookInit /\ [][TwoPassNext]_vars

\* ---- two passes at once -------------------------------------------------------
\* Two processes run main() over the same directories; no operation fails
\* but for the state of the directories. Each scan is one step, and so are
\* the unlink and the build of an entry.
Procs == {1, 2}
RaceIds == { <<IdTok[k]>> : k \in 1..NumRaceIds }

Fresh == [pc |-> "scan_click", apparray |-> <<>>, i |-> 1,
          desktopdirexists |-> FALSE, step |-> 1]

\* variant: the file is built first and unlinked afterwards
UpdateSteps_BuildFirst == <<"build", "unlink">>

\* lines 285-287: the steps of an update, in order
UpdateSteps == <<"unlink", "build">>

\* the steps main() takes for an entry
StepsOf(state) ==
    CASE ActionOf(state) = "update" -> UpdateSteps
      [] ActionOf(state) = "create" -> <<"build">>
      [] ActionOf(state) = "remove" -> <<"unlink">>
      [] OTHER -> <<"skip">>

RaceInit ==
    /\ argc = 1
    /\ symlinkKind \in {"absent", "dir"}
    /\ desktopKind \in {"absent", "dir"}
    /\ \E S \in SUBSET RaceIds :
          /\ symlinkKind = "absent" => S = {}
          /\ clickFiles \in [S -> Times]
    /\ \E G \in SUBSET { DesktopFileName(id) : id \in RaceIds },
          X \in {{}} \cup {{x} : x \in ExtraNames} :
          /\ desktopKind = "absent" => (G = {} /\ X = {})
          /\ \E gt \in [G -> Times] :
                desktopFiles = [n \in G \cup X |->
                                  [ctime |-> IF n \in G THEN gt[n] ELSE 1,
                                   content |-> OldContent]]
    /\ now = MaxTime + 1
    /\ pc = "idle" /\ apparray = <<>> /\ i = 1 /\ desktopdirexists = FALSE
    /\ processed = <<>> /\ faults = 0 /\ retcode = -1
    /\ rproc = [p \in Procs |-> Fresh]
    /\ rstart = [files |-> desktopFiles, kind |-> desktopKind]
    /\ ToolIdle /\ SnapIdle /\ IconIdle /\ PassIdle

RaceFrame ==
    /\ UNCHANGED <<argc, symlinkKind, clickFiles, pc, apparray, i, desktopdirexists,
                   processed, faults, retcode, rstart>>
    /\ UNCHANGED <<toolVars, snapVars, iconVars, passVars>>

\* lines 257-263 in process p
RaceScanClick(p) ==
    /\ rproc[p].pc = "scan_click"
    /\ \E arr \in IF SymlinkDirTest
                   THEN { dir_for_each("add_click_package", clickFiles, order, <<>>) :
                            order \in Orders(DOMAIN clickFiles) }
                   ELSE {<<>>} :
          rproc' = [rproc EXCEPT ![p].pc = "scan_desktop", ![p].apparray = arr]
    /\ UNCHANGED <<desktopKind, desktopFiles, now>>
    /\ RaceFrame

\* lines 265-273 in process p
RaceScanDesktop(p) ==
    /\ rproc[p].pc = "scan_desktop"
    /\ \E arr \in IF DesktopScanTest /\ desktopKind = "dir"
                   THEN { dir_for_each("add_desktop_file", DesktopTimes(desktopFiles),
                                       order, rproc[p].apparray) :
                            order \in Orders(DOMAIN desktopFiles) }
                   ELSE {rproc[p].apparray} :
          rproc' = [rproc EXCEPT ![p].pc = "merge", ![p].apparray = arr,
                                 ![p].desktopdirexists = DesktopScanTest]
    /\ UNCHANGED <<desktopKind, desktopFiles, now>>
    /\ RaceFrame

\* lines 277-310 in process p: the next step of the entry the loop is at
RaceStep(p) ==
    LET me == rproc[p]
        state == me.apparray[me.i]
        steps == StepsOf(state)
        op == steps[me.step]
        keyfile == SourceDesktop(state.app_id)
        domkdir == op = "build" /\ ActionOf(state) = "create" /\ ~me.desktopdirexists
        kind == IF domkdir THEN "dir" ELSE desktopKind
        outcome == BuildOutcome("none", keyfile, kind)
        last == me.step = Len(steps)
    IN  /\ me.pc = "merge"
        /\ me.i <= Len(me.apparray)
        /\ desktopKind' = kind
        /\ desktopFiles' =
              CASE op = "unlink" -> remove_desktop_file(desktopFiles, state.app_id, FALSE)
                [] op = "build" -> build_desktop_file(desktopFiles, state.app_id, outcome,
                                                      keyfile, now)
                [] OTHER -> desktopFiles
        /\ now' = IF op = "build" /\ outcome = "ok" THEN now + 1 ELSE now
        /\ rproc' = [rproc EXCEPT
                       ![p].i = IF last THEN NextIndex(me.i, FALSE, Len(me.apparray)) ELSE me.i,
                       ![p].step = IF last THEN 1 ELSE me.step + 1,
                       ![p].desktopdirexists = me.desktopdirexists \/ domkdir]
        /\ RaceFrame

\* lines 312-316 in process p
RaceExit(p) ==
    /\ rproc[p].pc = "merge"
    /\ rproc[p].i > Len(rproc[p].apparray)
    /\ rproc' = [rproc EXCEPT ![p].pc = "done"]
    /\ UNCHANGED <<desktopKind, desktopFiles, now>>
    /\ RaceFrame

RaceNext ==
    \E p \in Procs : RaceScanClick(p) \/ RaceScanDesktop(p) \/ RaceStep(p) \/ RaceExit(p)

RaceSpec == RaceInit /\ [][RaceNext]_vars

\* the merge loop of one pass alone, from entry k on: the files it leaves
RECURSIVE MergeAlone(_, _, _, _, _, _)
MergeAlone(files, kind, exists, arr, k, t) ==
    IF k > Len(arr) THEN files
    ELSE LET state == arr[k]
             keyfile == SourceDesktop(state.app_id)
             act == ActionOf(state)
             mk == act = "create" /\ ~exists
             kind2 == IF mk THEN "dir" ELSE kind
             outcome == BuildOutcome("none", keyfile, kind2)
             files2 == CASE act = "update" ->
                              update_desktop_file(files, state.app_id, FALSE, outcome, keyfile, t)
                         [] act = "create" ->
                              build_desktop_file(files, state.app_id, outcome, keyfile, t)
                         [] act = "remove" -> remove_desktop_file(files, state.app_id, FALSE)
                         [] OTHER -> files
         IN  MergeAlone(files2, kind2, exists \/ mk, arr, NextIndex(k, FALSE, Len(arr)), t + 1)

\* the sets of file names one pass alone may leave, started on the
\* directories the two passes started on
AloneNames ==
    LET clicks == IF SymlinkDirTest
                  THEN { dir_for_each("add_click_package", clickFiles, order, <<>>) :
                           order \in Orders(DOMAIN clickFiles) }
                  ELSE {<<>>}
        both(arr) == IF DesktopScanTest /\ rstart.kind = "dir"
                     THEN { dir_for_each("add_desktop_file", DesktopTimes(rstart.files),
                                         order, arr) :
                              order \in Orders(DOMAIN rstart.files) }
                     ELSE {arr}
    IN  { DOMAIN MergeAlone(rstart.files, rstart.kind, DesktopScanTest, arr, 1, MaxTime + 1) :
            arr \in UNION { both(a) : a \in clicks } }

\* ========================================================================
\*                 LAUNCH TOOL (tools/upstart-app-launch.c)
\* ========================================================================

AppIds == {"x", "y"}
GoodKinds == {"started", "focus"}
Kinds == GoodKinds \cup {"failed"}
Notifications == [kind : Kinds, appid : AppIds]

\* variant: the app id of the notification is not compared
good_observer_AnyApp(appid, st) == [st EXCEPT !.quit = TRUE]

\* good_observer: the globals and the loop after it ran for appid
good_observer(appid, st) ==
    IF appid # st.global_appid THEN st
    ELSE [st EXCEPT !.quit = TRUE]

\* variant: retval is left alone
bad_observer_KeepRetval(appid, st) ==
    IF appid # st.global_appid THEN st
    ELSE [st EXCEPT !.quit = TRUE]

\* bad_observer: the globals and the loop after it ran for appid
bad_observer(appid, st) ==
    IF appid # st.global_appid THEN st
    ELSE [st EXCEPT !.retval = -1, !.quit = TRUE]

\* the process exit status of return retval: its low 8 bits
ExitStatus(r) == r % 256

ToolInit ==
    /\ targc \in {1, 2, 3}
    /\ targv1 \in (IF targc >= 2 THEN AppIds ELSE {"NULL"})
    /\ global_appid = "NULL"
    /\ retval = 0
    /\ tpc = "start"
    /\ observers = {}
    /\ launched = FALSE
    /\ quit = FALSE
    /\ pending = <<>>
    /\ emitted = 0
    /\ seen = <<>>
    /\ texit = -1
    /\ HookIdle /\ SnapIdle /\ ExtIdle

\* lines 51-57: usage error, or take the app id
ToolCheckArgs ==
    /\ tpc = "start"
    /\ IF targc < 2
       THEN /\ tpc' = "exit"
            /\ texit' = 1
            /\ UNCHANGED global_appid
       ELSE /\ tpc' = "add_started"
            /\ global_appid' = targv1
            /\ UNCHANGED texit
    /\ UNCHANGED <<targc, targv1, retval, observers, launched, quit, pending, emitted, seen>>
    /\ UNCHANGED <<hookVars, snapVars, extVars>>

\* lines 70-73: upstart_app_launch_observer_add_app_{started,focus,failed}
AddObserver(at, kind, next) ==
    /\ tpc = at
    /\ observers' = observers \cup {kind}
    /\ tpc' = next
    /\ UNCHANGED <<targc, targv1, global_appid, retval, launched, quit, pending,
                   emitted, seen, texit>>
    /\ UNCHANGED <<hookVars, snapVars, extVars>>

AddStarted == AddObserver("add_started", "started", "add_focus")
AddFocus == AddObserver("add_focus", "focus", "add_failed")
AddFailed == AddObserver("add_failed", "failed", "launch")

\* line 75: upstart_app_launch_start_application
StartApplication ==
    /\ tpc = "launch"
    /\ launched' = TRUE
    /\ tpc' = "run"
    /\ UNCHANGED <<targc, targv1, global_appid, retval, observers, quit, pending,
                   emitted, seen, texit>>
    /\ UNCHANGED <<hookVars, snapVars, extVars>>

\* The library raises a notification: it is queued for the main loop when an
\* observer of its kind is registered, and lost otherwise.
Emit ==
    /\ tpc \notin {"start", "exit"}
    /\ emitted < MaxEvents
    /\ \E n \in Notifications :
          pending' = IF n.kind \in observers THEN Append(pending, n) ELSE pending
    /\ emitted' = emitted + 1
    /\ UNCHANGED <<targc, targv1, global_appid, retval, tpc, observers, launched, quit,
                   seen, texit>>
    /\ UNCHANGED <<hookVars, snapVars, extVars>>

\* line 77: g_main_loop_run dispatches the next queued notification to its
\* observer
Dispatch ==
    /\ tpc = "run"
    /\ ~quit
    /\ pending # <<>>
    /\ LET n == Head(pending)
           st == [global_appid |-> global_appid, retval |-> retval, quit |-> quit]
           after == IF n.kind \in GoodKinds THEN good_observer(n.appid, st)
                    ELSE bad_observer(n.appid, st)
       IN  /\ retval' = after.retval
           /\ quit' = after.quit
           /\ seen' = Append(seen, n)
    /\ pending' = Tail(pending)
    /\ UNCHANGED <<targc, targv1, global_appid, tpc, observers, launched, emitted, texit>>
    /\ UNCHANGED <<hookVars, snapVars, extVars>>

\* line 77: g_main_loop_run returns once the loop was quit
LoopReturn ==
    /\ tpc = "run"
    /\ quit
    /\ tpc' = "del_started"
    /\ UNCHANGED <<targc, targv1, global_appid, retval, observers, launched, quit,
                   pending, emitted, seen, texit>>
    /\ UNCHANGED <<hookVars, snapVars, extVars>>

\* lines 79-81: upstart_app_launch_observer_delete_app_{started,focus,failed}
DeleteObserver(at, kind, next) ==
    /\ tpc = at
    /\ observers' = observers \ {kind}
    /\ tpc' = next
    /\ UNCHANGED <<targc, targv1, global_appid, retval, launched, quit, pending,
                   emitted, seen, texit>>
    /\ UNCHANGED <<hookVars, snapVars, extVars>>

DeleteStarted == DeleteObserver("del_started", "started", "del_focus")
DeleteFocus == DeleteObserver("del_focus", "focus", "del_failed")
DeleteFailed == DeleteObserver("del_failed", "failed", "return")

\* line 86: return retval
ToolReturn ==
    /\ tpc = "return"
    /\ texit' = ExitStatus(retval)
    /\ tpc' = "exit"
    /\ UNCHANGED <<targc, targv1, global_appid, retval, observers, launched, quit,
                   pending, emitted, seen>>
    /\ UNCHANGED <<hookVars, snapVars, extVars>>

LaunchNext ==
    \/ ToolCheckArgs \/ AddStarted \/ AddFocus \/ AddFailed \/ StartApplication
    \/ Emit \/ Dispatch \/ LoopReturn
    \/ DeleteStarted \/ DeleteFocus \/ DeleteFailed \/ ToolReturn

LaunchSpec == ToolInit /\ [][LaunchNext]_vars

\* ========================================================================
\*              SNAP APPLICATION STORE (app-store-snap.cpp)
\* ========================================================================

\* characters: "a" and "b" stand for [a-zA-Z0-9], "-" for the hyphen, "_" for
\* every other character
Alphabet == {"a", "b", "-", "_"}
IsAlnum(c) == c \in {"a", "b"}

\* the strings of at most n characters
Strings(n) == UNION { [1..k -> Alphabet] : k \in 0..n }

Packages == {"", "p", "q"}
Versions == {"", "r1", "r2"}
AppIDs == [package : Packages, appname : Strings(MaxNameLen), version : Versions]

\* (?:-?[a-zA-Z0-9])*$ matched against s
RECURSIVE MatchGroups(_)
MatchGroups(s) ==
    IF s = <<>> THEN TRUE
    ELSE \/ /\ s[1] = "-" /\ Len(s) >= 2 /\ IsAlnum(s[2])
            /\ MatchGroups(SubSeq(s, 3, Len(s)))
         \/ /\ IsAlnum(s[1])
            /\ MatchGroups(Tail(s))

\* std::regex_match(s, appnameRegex), ^[a-zA-Z0-9](?:-?[a-zA-Z0-9])*$
regex_match(s) == Len(s) >= 1 /\ IsAlnum(s[1]) /\ MatchGroups(Tail(s))

\* what the package daemon knows of a package
NoInfo == [found |-> FALSE, appnames |-> {}, revision |-> ""]
DaemonNames == { <<"a">>, <<"b">>, <<"a", "-", "b">> }
PkgInfos == {NoInfo} \cup [found : {TRUE}, appnames : SUBSET DaemonNames,
                           revision : Versions \ {""}]

\* snapdInfo.pkgInfo(package): a null pointer for an unknown package, an
\* exception when the daemon cannot be asked
pkgInfo(package, err) ==
    [threw |-> err,
     info |-> IF ~err /\ package \in DOMAIN snapdInfo THEN snapdInfo[package] ELSE NoInfo]

\* app_impls::Snap::checkPkgInfo(pkginfo, appId)
checkPkgInfo(info, appId) ==
    info.found /\ info.revision = appId.version /\ appId.appname \in info.appnames

\* what a call does: its result or exception, and the queries it issued
Return(kind, val, n, err) == [result |-> [kind |-> kind, val |-> val], queries |-> n, error |-> err]
Bool(b) == IF b THEN "true" ELSE "false"
Throw(n) == Return("exception", "runtime_error", n, TRUE)

\* variant: the version is not looked at
EmptyFields_PackageOnly(appId) == appId.package = ""

\* lines 62-65 of hasAppId
EmptyFields(appId) == appId.package = "" \/ appId.version = ""

\* Snap::hasAppId
hasAppId(appId, err) ==
    IF EmptyFields(appId) THEN Return("bool", "false", 0, FALSE)
    ELSE IF ~regex_match(appId.appname) THEN Return("bool", "false", 0, FALSE)
    ELSE LET q == pkgInfo(appId.package, err)
         IN  IF q.threw THEN Throw(1)
             ELSE Return("bool", Bool(checkPkgInfo(q.info, appId)), 1, FALSE)

\* Snap::verifyPackage
verifyPackage(package, err) ==
    LET q == pkgInfo(package, err)
    IN  IF q.threw THEN Return("bool", "false", 1, TRUE)
        ELSE Return("bool", Bool(q.info.found), 1, FALSE)

\* Snap::verifyAppname
verifyAppname(package, appname, err) ==
    IF ~regex_match(appname) THEN Return("bool", "false", 0, FALSE)
    ELSE LET q == pkgInfo(package, err)
         IN  IF q.threw THEN Throw(1)
             ELSE IF ~q.info.found THEN Return("bool", "false", 1, FALSE)
             ELSE Return("bool", Bool(appname \in q.info.appnames), 1, FALSE)

\* Snap::findVersion
findVersion(package, appname, err) ==
    LET q == pkgInfo(package, err)
    IN  IF q.threw THEN Throw(1)
        ELSE IF q.info.found THEN Return("version", q.info.revision, 1, FALSE)
        ELSE Return("version", "", 1, FALSE)

\* the order of std::string on the characters of the alphabet: the hyphen
\* sorts before every other character, and those before letters and digits
CharCode == [c \in Alphabet |->
               CASE c = "-" -> 1 [] c = "_" -> 2 [] c = "a" -> 3 [] c = "b" -> 4]

\* std::string operator<, the order of the set pkgInfo->appnames
RECURSIVE NameLess(_, _)
NameLess(x, y) ==
    IF y = <<>> THEN FALSE
    ELSE IF x = <<>> THEN TRUE
    ELSE IF x[1] # y[1] THEN CharCode[x[1]] < CharCode[y[1]]
    ELSE NameLess(Tail(x), Tail(y))

\* *appnames.rbegin(): the element no other element follows
rbegin(appnames) == CHOOSE n \in appnames : \A m \in appnames : ~NameLess(n, m)

\* variant: the first element is taken from the back of the set
begin_FromBack(appnames) == rbegin(appnames)

\* *appnames.begin(): the element no other element precedes
begin(appnames) == CHOOSE n \in appnames : \A m \in appnames : ~NameLess(m, n)

Wildcards == {"FIRST_LISTED", "LAST_LISTED", "ONLY_LISTED"}

\* a call that returns an app name, or throws without a daemon error
Name(n) == [result |-> [kind |-> "appname", val |-> "from_raw"], queries |-> 1,
            error |-> FALSE, name |-> n]
NotFound == [result |-> [kind |-> "exception", val |-> "runtime_error"], queries |-> 1,
             error |-> FALSE, name |-> <<>>]

\* Snap::findAppname
findAppname(package, card, err) ==
    LET q == pkgInfo(package, err)
    IN  IF q.threw THEN Throw(1) @@ [name |-> <<>>]
        ELSE IF ~q.info.found THEN NotFound
        ELSE IF q.info.appnames = {} THEN NotFound
        ELSE CASE card = "FIRST_LISTED" -> Name(begin(q.info.appnames))
               [] card = "LAST_LISTED" -> Name(rbegin(q.info.appnames))
               [] card = "ONLY_LISTED" ->
                    IF Cardinality(q.info.appnames) # 1 THEN NotFound
                    ELSE Name(begin(q.info.appnames))

\* A call of the store: the daemon knows package "p" or not, the arguments
\* are drawn from the bounded sets.
SnapInit ==
    /\ snapdInfo \in [{"p"} -> PkgInfos]
    /\ sop = "none"
    /\ sargs \in AppIDs
    /\ sresult = NoResult
    /\ squeries = 0
    /\ serror = FALSE
    /\ scard = "none" /\ svalue = <<>> /\ sifaces = <<>>
    /\ snapApps = <<>> /\ snapBroken = {}
    /\ HookIdle /\ ToolIdle /\ ExtIdle

Called(op, r) ==
    /\ sop = "none"
    /\ sop' = op
    /\ sresult' = r.result
    /\ squeries' = r.queries
    /\ serror' = r.error
    /\ UNCHANGED <<snapdInfo, sargs, scard, svalue, sifaces, snapApps, snapBroken>>
    /\ UNCHANGED <<hookVars, toolVars, extVars>>

HasAppId == \E err \in BOOLEAN : Called("hasAppId", hasAppId(sargs, err))
VerifyPackage == \E err \in BOOLEAN : Called("verifyPackage", verifyPackage(sargs.package, err))
VerifyAppname ==
    \E err \in BOOLEAN : Called("verifyAppname", verifyAppname(sargs.package, sargs.appname, err))
FindVersion ==
    \E err \in BOOLEAN : Called("findVersion", findVersion(sargs.package, sargs.appname, err))

FindAppname ==
    \E err \in BOOLEAN, card \in Wildcards :
        LET r == findAppname(sargs.package, card, err)
        IN  /\ sop = "none"
            /\ sop' = "findAppname"
            /\ scard' = card
            /\ sresult' = r.result
            /\ svalue' = r.name
            /\ squeries' = r.queries
            /\ serror' = r.error
            /\ UNCHANGED <<snapdInfo, sargs, sifaces, snapApps, snapBroken>>
            /\ UNCHANGED <<hookVars, toolVars, extVars>>

SnapNext == HasAppId \/ VerifyPackage \/ VerifyAppname \/ FindVersion \/ FindAppname

SnapSpec == SnapInit /\ [][SnapNext]_vars

\* ---- Snap::list ----------------------------------------------------------
\* the two interface groups, in the iteration order of their std::set
LIFECYCLE_INTERFACES == <<"unity8">>
XMIR_INTERFACES == <<"unity7", "x11">>
Interfaces == {"unity8", "unity7", "x11"}

\* the AppIDs the daemon may report: the first NumApps of these
AppPool == << [package |-> "p", appname |-> <<"b">>, version |-> "r1"],
             [package |-> "p", appname |-> <<"a">>, version |-> "r1"],
             [package |-> "q", appname |-> <<"a">>, version |-> "r1"],
             [package |-> "p", appname |-> <<"a">>, version |-> "r2"] >>
ListAppIDs == { AppPool[k] : k \in 1..NumApps }

\* the order of std::string on the package names and revisions used
StrCode == [x \in Packages \cup Versions |->
              CASE x = "" -> 0 [] x = "p" -> 1 [] x = "q" -> 2
                [] x = "r1" -> 3 [] x = "r2" -> 4]

\* AppID operator<: package, then appname, then version
AppIDLess(a, b) ==
    IF a.package # b.package THEN StrCode[a.package] < StrCode[b.package]
    ELSE IF a.appname # b.appname THEN NameLess(a.appname, b.appname)
    ELSE StrCode[a.version] < StrCode[b.version]

\* struct appcompare
appcompare(a, b) == AppIDLess(a.appId, b.appId)

\* variant: the set keeps equivalent handles, as a multiset would
emplace_Multi(apps, app) ==
    LET before == SelectSeq(apps, LAMBDA x : ~appcompare(app, x))
        after == SelectSeq(apps, LAMBDA x : appcompare(app, x))
    IN  before \o <<app>> \o after

\* apps.emplace(app) on a std::set ordered by appcompare: a handle
\* equivalent to one of the set is not inserted
emplace(apps, app) ==
    IF \E k \in 1..Len(apps) : ~appcompare(apps[k], app) /\ ~appcompare(app, apps[k])
    THEN apps
    ELSE LET before == SelectSeq(apps, LAMBDA x : appcompare(x, app))
             after == SelectSeq(apps, LAMBDA x : appcompare(app, x))
         IN  before \o <<app>> \o after

\* std::make_shared<app_impls::Snap>(id, registry, interface)
MakeSnap(id, interface) ==
    [threw |-> <<id, interface>> \in snapBroken,
     app |-> [appId |-> id, interface |-> interface]]

\* variant: a handle that cannot be built empties the set
TryAdd_FailureClears(apps, id, interface) ==
    LET made == MakeSnap(id, interface)
    IN  IF made.threw THEN <<>> ELSE emplace(apps, made.app)

\* lines 202-210, the body of the loop over the candidates
TryAdd(apps, id, interface) ==
    LET made == MakeSnap(id, interface)
    IN  IF made.threw THEN apps ELSE emplace(apps, made.app)

\* snapdInfo.appsForInterface(interface), a set of AppIDs
appsForInterface(interface) == snapApps[interface]

\* lines 200-211, the loop over the candidates still to visit
RECURSIVE ForEachId(_, _, _)
ForEachId(apps, ids, interface) ==
    IF ids = {} THEN apps
    ELSE LET id == CHOOSE x \in ids : \A y \in ids : ~AppIDLess(y, x)
         IN  ForEachId(TryAdd(apps, id, interface), ids \ {id}, interface)

\* the lambda addAppsForInterface
addAppsForInterface(apps, interface) == ForEachId(apps, appsForInterface(interface), interface)

\* lines 214-223, the two loops over the interface groups
RECURSIVE ForEachInterface(_, _)
ForEachInterface(apps, interfaces) ==
    IF interfaces = <<>> THEN apps
    ELSE ForEachInterface(addAppsForInterface(apps, Head(interfaces)), Tail(interfaces))

\* Snap::list
list ==
    [apps |-> ForEachInterface(ForEachInterface(<<>>, LIFECYCLE_INTERFACES), XMIR_INTERFACES),
     asked |-> LIFECYCLE_INTERFACES \o XMIR_INTERFACES]

\* A call of list: the daemon reports any AppIDs for any interface, and any
\* handle may fail to build.
ListInit ==
    /\ snapdInfo = <<>> /\ sop = "none" /\ sargs = NoArgs /\ sresult = NoResult
    /\ squeries = 0 /\ serror = FALSE
    /\ scard = "none" /\ svalue = <<>> /\ sifaces = <<>>
    /\ snapApps \in [Interfaces -> SUBSET ListAppIDs]
    /\ snapBroken \in SUBSET (ListAppIDs \X Interfaces)
    /\ HookIdle /\ ToolIdle /\ ExtIdle

List ==
    /\ sop = "none"
    /\ sop' = "list"
    /\ sresult' = [kind |-> "list", val |-> "apps"]
    /\ svalue' = list.apps
    /\ sifaces' = list.asked
    /\ UNCHANGED <<snapdInfo, sargs, squeries, serror, scard, snapApps, snapBroken>>
    /\ UNCHANGED <<hookVars, toolVars, extVars>>

ListNext == List

ListSpec == ListInit /\ [][ListNext]_vars

\* ========================================================================
\*                 ICON FINDER (application-icon-finder.cpp)
\* ========================================================================

\* A path is a sequence of tokens: the separator "/", the icon extensions
\* and the pieces of names.
ICON_TYPES == <<".png", ".svg", ".xpm">>
ICONS_DIR == <<"/", "icons">>
HICOLOR_THEME_DIR == <<"/", "icons", "/", "hicolor">>
HUMANITY_THEME_DIR == <<"/", "icons", "/", "Humanity">>
PIXMAPS_PATH == <<"/", "pixmaps", "/">>

RECURSIVE StripLead(_)
StripLead(s) == IF s # <<>> /\ Head(s) = "/" THEN StripLead(Tail(s)) ELSE s
RECURSIVE StripTrail(_)
StripTrail(s) ==
    IF s # <<>> /\ s[Len(s)] = "/" THEN StripTrail(SubSeq(s, 1, Len(s) - 1)) ELSE s

\* g_build_filename(a, b, nullptr): empty elements are skipped, the elements
\* are joined by one separator, the separators that begin the first and end
\* the last element are kept
g_build_filename(a, b) ==
    IF a = <<>> THEN b
    ELSE IF b = <<>> THEN a
    ELSE IF StripTrail(a) = <<>> THEN <<"/">> \o StripLead(b)
    ELSE StripTrail(a) \o <<"/">> \o StripLead(b)

\* g_file_test(path, G_FILE_TEST_EXISTS) and (path, G_FILE_TEST_IS_DIR); a
\* separator at the end of the name of a directory is of no account
IsDir(path) == StripTrail(path) \in idirs
Exists(path) == path \in ifiles \/ IsDir(path)

\* ---- getSearchPaths --------------------------------------------------------
Dir(path, size) == [path |-> path, size |-> size]

\* validDirectories
validDirectories(themePath, directory, size) ==
    IF Exists(g_build_filename(themePath, directory))
    THEN << Dir(g_build_filename(themePath, directory), size) >>
    ELSE <<>>

\* addSubdirectoryByType; a stanza is a function from its keys to their values
addSubdirectoryByType(stanza, directory, themePath) ==
    IF "Type" \notin DOMAIN stanza THEN <<>>
    ELSE IF stanza["Type"] = "Fixed" THEN
        IF "Size" \notin DOMAIN stanza THEN <<>>
        ELSE validDirectories(themePath, directory, stanza["Size"])
    ELSE IF stanza["Type"] = "Scalable" THEN
        IF "MaxSize" \notin DOMAIN stanza THEN <<>>
        ELSE validDirectories(themePath, directory, stanza["MaxSize"])
    ELSE IF stanza["Type"] = "Threshold" THEN
        IF "Size" \notin DOMAIN stanza THEN <<>>
        ELSE LET threshold == IF "Threshold" \in DOMAIN stanza THEN stanza["Threshold"] ELSE 2
             IN  validDirectories(themePath, directory, stanza["Size"] + threshold)
    ELSE <<>>

\* searchIconPaths
RECURSIVE searchIconPaths(_, _, _)
searchIconPaths(themefile, directories, themePath) ==
    IF directories = <<>> THEN <<>>
    ELSE LET d == Head(directories)
             stanza == themefile.stanzas[d]
             newDirs == IF "Context" \notin DOMAIN stanza THEN <<>>
                        ELSE IF stanza["Context"] = "Applications"
                             THEN addSubdirectoryByType(stanza, d, themePath)
                        ELSE <<>>
         IN  newDirs \o searchIconPaths(themefile, Tail(directories), themePath)

\* themeFileSearchPaths
themeFileSearchPaths(themePath) ==
    IF themePath \notin DOMAIN iindex THEN <<>>
    ELSE searchIconPaths(iindex[themePath], iindex[themePath].directories, themePath)

\* the names a theme directory may hold, in the order they are read; the
\* first NumSizeDirs of the sized ones are used
SizedNames == << <<"16", "x", "16">>, <<"32", "x", "32">>, <<"48", "x", "48">>,
                <<"128", "x", "128">>, <<"scalable">>, <<"64", "x", "64">> >>
OtherNames == << <<"16", "x", "32">>, <<"misc">> >>
DirNames == SubSeq(SizedNames, 1, NumSizeDirs) \o OtherNames

\* std::atoi on the digit strings used
Atoi == [d \in {"16", "32", "48", "64", "128"} |->
           CASE d = "16" -> 16 [] d = "32" -> 32 [] d = "48" -> 48
             [] d = "64" -> 64 [] d = "128" -> 128]

\* std::regex_match(dirstr, match, iconSizeDirname), ^(\d+)x\1$
iconSizeDirname(dirstr) ==
    Len(dirstr) = 3 /\ dirstr[1] \in DOMAIN Atoi /\ dirstr[2] = "x" /\ dirstr[3] = dirstr[1]

\* the loop of themeDirSearchPaths over the names read from the directory
RECURSIVE ScanNames(_, _)
ScanNames(themeDir, names) ==
    IF names = <<>> THEN <<>>
    ELSE LET dirname == Head(names)
             fullPath == g_build_filename(g_build_filename(themeDir, dirname), <<"apps">>)
             found == IF ~IsDir(fullPath) THEN <<>>
                      ELSE IF dirname = <<"scalable">> THEN << Dir(fullPath, 256) >>
                      ELSE IF iconSizeDirname(dirname) THEN << Dir(fullPath, Atoi[dirname[1]]) >>
                      ELSE <<>>
         IN  found \o ScanNames(themeDir, Tail(names))

\* themeDirSearchPaths
themeDirSearchPaths(themeDir) ==
    IF ~IsDir(themeDir) THEN <<>>
    ELSE ScanNames(themeDir,
                   SelectSeq(DirNames, LAMBDA n : IsDir(g_build_filename(themeDir, n))))

\* iconsFromThemePath
iconsFromThemePath(themeDir) ==
    IF IsDir(themeDir)
    THEN LET themeDirs == themeFileSearchPaths(themeDir)
         IN  << Dir(themeDir, 1) >> \o
             (IF Len(themeDirs) > 0 THEN themeDirs ELSE themeDirSearchPaths(themeDir))
    ELSE <<>>

\* std::list::sort with lhs.size > rhs.size: a stable insertion of each
\* element behind the elements that are not smaller
RECURSIVE SortBySize(_)
SortBySize(paths) ==
    IF paths = <<>> THEN <<>>
    ELSE LET rest == SortBySize(SubSeq(paths, 1, Len(paths) - 1))
             last == paths[Len(paths)]
         IN  SelectSeq(rest, LAMBDA x : x.size >= last.size) \o <<last>> \o
             SelectSeq(rest, LAMBDA x : x.size < last.size)

\* line 424
sort(paths) == SortBySize(paths)

\* getSearchPaths
getSearchPaths(basePath) ==
    LET hicolorIcons == iconsFromThemePath(g_build_filename(basePath, HICOLOR_THEME_DIR))
        humanityIcons == iconsFromThemePath(g_build_filename(basePath, HUMANITY_THEME_DIR))
        iconsPath == g_build_filename(basePath, ICONS_DIR)
        pixmapsPath == g_build_filename(basePath, PIXMAPS_PATH)
    IN  sort(hicolorIcons \o humanityIcons
             \o (IF IsDir(iconsPath) THEN << Dir(iconsPath, 1) >> ELSE <<>>)
             \o (IF IsDir(pixmapsPath) THEN << Dir(pixmapsPath, 1) >> ELSE <<>>))

\* ---- find -------------------------------------------------------------------
\* std::string::npos; positions count from 1
npos == 0

\* parent.find_last_of('/', pos): the last separator at or before pos, in the
\* whole string when pos is npos
find_last_of(str, pos) ==
    LET limit == IF pos = npos \/ pos > Len(str) THEN Len(str) ELSE pos
        hits == { k \in 1..limit : str[k] = "/" }
    IN  IF hits = {} THEN npos ELSE CHOOSE k \in hits : \A h \in hits : h <= k

\* child.find(needle) != npos
Contains(str, needle) ==
    \E k \in 0..(Len(str) - Len(needle)) : SubSeq(str, k + 1, k + Len(needle)) = needle

Found(path) == [hang |-> FALSE, path |-> path]
Hang == [hang |-> TRUE, path |-> <<>>]

\* the while loop of tryMergeFilePaths at the top of an iteration; the loop
\* is deterministic, so an iteration that starts in a state an earlier one
\* started in means that the loop never ends
RECURSIVE MergeLoop(_, _, _, _, _)
MergeLoop(parent, child, slashPos, prevSlashPos, visited) ==
    IF slashPos = npos THEN Found(child)
    ELSE IF <<slashPos, prevSlashPos>> \in visited THEN Hang
    ELSE IF ~Contains(child, SubSeq(parent, slashPos, Len(parent))) /\ prevSlashPos # npos
         THEN LET pathWithBase ==
                      g_build_filename(SubSeq(parent, 1, prevSlashPos - 1), child)
              IN  IF Exists(pathWithBase) THEN Found(pathWithBase) ELSE Found(child)
    ELSE MergeLoop(parent, child, find_last_of(parent, slashPos - 1), slashPos,
                   visited \cup {<<slashPos, prevSlashPos>>})

\* tryMergeFilePaths
tryMergeFilePaths(parent, child) ==
    MergeLoop(parent, child, find_last_of(parent, npos), npos, {})

\* tryFindExplicitFile
tryFindExplicitFile(basePath, iconName) ==
    IF Exists(iconName) THEN Found(iconName)
    ELSE IF Exists(g_build_filename(basePath, iconName))
         THEN Found(g_build_filename(basePath, iconName))
    ELSE LET merged == tryMergeFilePaths(basePath, iconName)
         IN  IF merged.hang THEN Hang
             ELSE IF merged.path # iconName THEN Found(merged.path)
             ELSE Found(<<>>)

\* hasImageExtension
hasImageExtension(filename) ==
    filename # <<>> /\ \E k \in 1..Len(ICON_TYPES) : filename[Len(filename)] = ICON_TYPES[k]

\* the loop of findExistingIcon over the extensions still to try
RECURSIVE TryExtensions(_, _, _)
TryExtensions(path, iconName, extensions) ==
    IF extensions = <<>> THEN <<>>
    ELSE LET fullpath == g_build_filename(path, iconName \o <<Head(extensions)>>)
         IN  IF Exists(fullpath) THEN fullpath
             ELSE TryExtensions(path, iconName, Tail(extensions))

\* findExistingIcon
findExistingIcon(path, iconName) ==
    IF hasImageExtension(iconName)
    THEN IF Exists(g_build_filename(path, iconName)) THEN g_build_filename(path, iconName)
         ELSE <<>>
    ELSE TryExtensions(path, iconName, ICON_TYPES)

\* variant: every directory is looked into, the last hit is kept
Larger_Always(pathSize, size) == TRUE

\* line 128, path.size > size
Larger(pathSize, size) == pathSize > size

\* lines 126-138, the loop of find over the search paths still to visit
RECURSIVE SizeRanked(_, _, _, _)
SizeRanked(paths, iconName, size, iconPath) ==
    IF paths = <<>> THEN iconPath
    ELSE LET path == Head(paths)
             foundIcon == findExistingIcon(path.path, iconName)
         IN  IF Larger(path.size, size) /\ foundIcon # <<>>
             THEN SizeRanked(Tail(paths), iconName, path.size, foundIcon)
             ELSE SizeRanked(Tail(paths), iconName, size, iconPath)

\* IconFinder::find
find(iconName) ==
    LET explicitIconPath == IF iconName # <<>> /\ iconName[1] = "/"
                            THEN tryFindExplicitFile(ibase, iconName)
                            ELSE Found(<<>>)
    IN  IF explicitIconPath.hang THEN [kind |-> "hang", path |-> <<>>]
        ELSE IF explicitIconPath.path # <<>>
             THEN [kind |-> "path", path |-> explicitIconPath.path]
        ELSE [kind |-> "path", path |-> SizeRanked(searchPaths, iconName, 0, <<>>)]

\* ---- the file systems and the calls ------------------------------------------
Icon == <<"f">>
IconPng == <<"f", ".png">>
IconSvg == <<"f", ".svg">>
BasePath == <<"/", "a", "/", "b">>
ShortBasePath == <<"/", "b">>

\* index.theme of the Humanity theme: a threshold, a scalable and a fixed
\* directory of size 0 for applications, a directory of another context, one
\* without a size and one without a context
HumanityIndex ==
    [directories |-> << <<"t">>, <<"s">>, <<"z">>, <<"o">>, <<"n">>, <<"c">> >>,
     stanzas |->
        ( <<"t">> :> [Context |-> "Applications", Type |-> "Threshold", Size |-> 22] ) @@
        ( <<"s">> :> [Context |-> "Applications", Type |-> "Scalable", MaxSize |-> 64] ) @@
        ( <<"z">> :> [Context |-> "Applications", Type |-> "Fixed", Size |-> 0] ) @@
        ( <<"o">> :> [Context |-> "Actions", Type |-> "Fixed", Size |-> 512] ) @@
        ( <<"n">> :> [Context |-> "Applications", Type |-> "Fixed"] ) @@
        ( <<"c">> :> [Type |-> "Fixed", Size |-> 512] ) ]

\* the directories above a path, the path itself left out
Parents(path) ==
    { SubSeq(path, 1, k - 1) : k \in { j \in 2..Len(path) : path[j] = "/" } }

\* a file system holding the files and the directories given, and the
\* directories above them
FileSystem(dirs, files) ==
    [dirs |-> dirs \cup UNION { Parents(x) : x \in dirs \cup files }, files |-> files]

\* the themes below the base path: each sized directory of hicolor absent,
\* empty or holding f.png; the directories of the Humanity index in humanity
\* present and holding f.png; f.png below the theme directory, the icons
\* directory and the pixmaps directory as told
ThemeTree(base, sized, humanity, rootIcons, inHicolor, inPixmaps) ==
    LET hicolor == g_build_filename(base, HICOLOR_THEME_DIR)
        human == g_build_filename(base, HUMANITY_THEME_DIR)
        apps(n) == g_build_filename(g_build_filename(hicolor, n), <<"apps">>)
        present == { k \in 1..NumSizeDirs : sized[k] # "absent" }
        others == { apps(OtherNames[k]) : k \in 1..Len(OtherNames) }
        skipped == { g_build_filename(human, d) : d \in { <<"o">>, <<"n">>, <<"c">> } }
        declared == { g_build_filename(human, d) : d \in humanity }
        icons == g_build_filename(base, ICONS_DIR)
        pixmaps == StripTrail(g_build_filename(base, PIXMAPS_PATH))
    IN  FileSystem(
            {hicolor, human} \cup { apps(SizedNames[k]) : k \in present }
                \cup others \cup skipped \cup declared
                \cup (IF inPixmaps THEN {pixmaps} ELSE {}),
            { g_build_filename(apps(SizedNames[k]), IconPng) :
                  k \in { j \in present : sized[j] = "png" } }
                \cup { g_build_filename(d, IconPng) : d \in others \cup skipped \cup declared }
                \cup { g_build_filename(icons, n) : n \in rootIcons }
                \cup (IF inHicolor THEN {g_build_filename(hicolor, IconPng)} ELSE {})
                \cup (IF inPixmaps THEN {g_build_filename(pixmaps, IconPng)} ELSE {}))

\* the file systems of the size-ranked search
ThemeTrees ==
    { ThemeTree(BasePath, sized, humanity, rootIcons, inHicolor, inPixmaps) :
        sized \in [1..NumSizeDirs -> {"absent", "empty", "png"}],
        humanity \in SUBSET { <<"t">>, <<"s">>, <<"z">> },
        rootIcons \in SUBSET {IconPng, IconSvg},
        inHicolor \in BOOLEAN, inPixmaps \in BOOLEAN }
    \cup { FileSystem({BasePath}, {}) }

\* the paths given to find as explicit paths, and the files they may name
ExplicitNames == { <<"/", "q", "/">> \o IconPng, <<"/", "b", "/">> \o IconPng,
                   <<"/", "a", "/", "b", "/">> \o IconPng }
ExplicitFiles(base) ==
    ExplicitNames \cup { g_build_filename(base, n) : n \in ExplicitNames }

\* the file systems of the explicit search: an icons directory that may hold
\* f.png and q/f.png, and any of the files an explicit path may name
ExplicitTrees(base) ==
    { FileSystem({g_build_filename(base, ICONS_DIR)}, files \cup inIcons) :
        files \in SUBSET ExplicitFiles(base),
        inIcons \in SUBSET { g_build_filename(g_build_filename(base, ICONS_DIR), n) :
                                n \in {IconPng, <<"q", "/">> \o IconPng} } }

IconNames == {Icon, IconPng, IconSvg, <<"g">>} \cup ExplicitNames

\* An icon finder constructed for a base path over one of the file systems.
IconInit ==
    /\ \E base \in {BasePath, ShortBasePath} :
         \E fs \in (IF base = BasePath THEN ThemeTrees ELSE {}) \cup ExplicitTrees(base) :
            /\ ibase = base
            /\ idirs = fs.dirs
            /\ ifiles = fs.files
            /\ iindex = IF g_build_filename(base, HUMANITY_THEME_DIR) \in fs.dirs
                        THEN g_build_filename(base, HUMANITY_THEME_DIR) :> HumanityIndex
                        ELSE <<>>
    /\ searchPaths = getSearchPaths(ibase)
    /\ iop = "none" /\ iname = <<>> /\ iresult = NoIcon
    /\ HookIdle /\ ToolIdle /\ SnapIdle /\ PassIdle /\ RaceIdle

Find ==
    \E iconName \in IconNames :
        /\ iop = "none"
        /\ iop' = "find"
        /\ iname' = iconName
        /\ iresult' = find(iconName)
        /\ UNCHANGED <<ibase, idirs, ifiles, iindex, searchPaths>>
        /\ UNCHANGED <<hookVars, toolVars, snapVars, passVars, raceVars>>

IconNext == Find

IconSpec == IconInit /\ [][IconNext]_vars

\* ========================================================================
\*                      PROPERTIES OF THE RECONCILER
\* ========================================================================

\* the merge loop has just handled entry i
Handled == pc = "merge" /\ i <= Len(apparray) /\ Len(processed') = Len(processed) + 1

\* C1: after a pass without I/O failure, no generated desktop file
\* click-W.desktop is left whose identity W has no entry in the click
\* directory (the click directory may itself be absent).
C1_OrphanDeleted ==
    (pc = "done" /\ faults = 0) =>
        \A W \in Ids \cup {DottedId} :
            W \notin DOMAIN clickFiles => DesktopFileName(W) \notin DOMAIN desktopFiles

\* C2: after a pass without I/O failure, every identity seen only in the
\* click directory has its desktop file, in a desktop directory that exists.
C2_CreatedForClickOnly ==
    (pc = "done" /\ faults = 0) =>
        \A k \in 1..Len(apparray) :
            (apparray[k].has_click /\ ~apparray[k].has_desktop) =>
                /\ desktopKind = "dir"
                /\ DesktopFileName(apparray[k].app_id) \in DOMAIN desktopFiles

\* C3: for an entry seen in both directories with the click entry strictly
\* newer, the loop removes the desktop file and then builds it, in that
\* order: both are attempted, a successful build leaves exactly the key file
\* generated from the package (nothing of the old content), created now, and
\* a failed build after a successful removal leaves no file.
C3_DeleteThenRegenerate ==
    [][ (Handled /\ apparray[i].has_click /\ apparray[i].has_desktop
                 /\ apparray[i].click_created > apparray[i].desktop_created) =>
          LET p == processed'[Len(processed')]
              n == DesktopFileName(apparray[i].app_id)
          IN  /\ p.unlink # "none" /\ p.build # "none"
              /\ p.build = "ok" =>
                    /\ n \in DOMAIN desktopFiles'
                    /\ desktopFiles'[n].ctime = now
                    /\ desktopFiles'[n].content =
                          NewKeyfile(SourceDesktop(apparray[i].app_id), apparray[i].app_id)
                    /\ desktopFiles'[n].content.Other # OldContent.Other
                    /\ desktopFiles'[n].content.XCanonicalOldPath # OldContent.XCanonicalOldPath
              /\ (p.build # "ok" /\ p.unlink = "ok") => n \notin DOMAIN desktopFiles'
              /\ (p.build # "ok" /\ p.unlink = "fail") =>
                    (n \in DOMAIN desktopFiles' <=> n \in DOMAIN desktopFiles)
              /\ \A m \in DOMAIN desktopFiles \ {n} :
                    m \in DOMAIN desktopFiles' /\ desktopFiles'[m] = desktopFiles[m]
      ]_vars

\* C3 witness: an update whose removal and build both succeeded
C3_Witness ==
    \E k \in 1..Len(processed) :
        /\ processed[k].action = "update"
        /\ processed[k].unlink = "ok" /\ processed[k].build = "ok"
        /\ desktopFiles[DesktopFileName(processed[k].app_id)].content.Other = <<"src">>

\* C4: for an entry seen in both directories whose desktop file is as new as
\* or newer than the click entry, the loop changes nothing in the file
\* system: no file removed or written, no directory made.
C4_SynchronizedUntouched ==
    [][ (Handled /\ apparray[i].has_click /\ apparray[i].has_desktop
                 /\ apparray[i].desktop_created >= apparray[i].click_created) =>
          /\ desktopFiles' = desktopFiles /\ desktopKind' = desktopKind
          /\ clickFiles' = clickFiles /\ symlinkKind' = symlinkKind
          /\ now' = now
          /\ processed'[Len(processed')] = [app_id |-> apparray[i].app_id, action |-> "noop"] @@ NoOps
      ]_vars

\* C4 witness: a synchronized entry with equal creation times was handled
C4_Witness ==
    \E k \in 1..Len(processed) :
        /\ processed[k].action = "noop"
        /\ apparray[k].has_click /\ apparray[k].has_desktop
        /\ apparray[k].desktop_created = apparray[k].click_created

\* a file name of the form click-*.desktop
GeneratedForm(n) == Len(n) >= 2 /\ n[1] = "click-" /\ n[Len(n)] = ".desktop"

\* C5: a file of the desktop directory whose name is not of the form
\* click-*.desktop gives no entry its has_desktop or desktop_created (every
\* entry seen as a desktop file has its identity and creation time from a
\* file of that form, every other entry comes from the click directory), and
\* no step removes or rewrites it.
C5_ForeignFilesIgnored ==
    /\ [](  (pc = "merge" /\ i = 1) =>
              \A k \in 1..Len(apparray) :
                 /\ apparray[k].has_click \/ apparray[k].has_desktop
                 /\ apparray[k].has_click => apparray[k].app_id \in DOMAIN clickFiles
                 /\ apparray[k].has_desktop =>
                       \E n \in DOMAIN desktopFiles :
                          /\ GeneratedForm(n)
                          /\ Len(n) >= Len(apparray[k].app_id) + 2
                          /\ SubSeq(n, 2, Len(apparray[k].app_id) + 1) = apparray[k].app_id
                          /\ apparray[k].desktop_created = desktopFiles[n].ctime
                 /\ ~apparray[k].has_desktop => apparray[k].desktop_created = 0 )
    /\ [][ \A n \in DOMAIN desktopFiles :
              ~GeneratedForm(n) => (n \in DOMAIN desktopFiles' /\ desktopFiles'[n] = desktopFiles[n])
       ]_vars

\* C5 witness: the pass is over, it removed and wrote generated files, and
\* the foreign file named like an identity is still in the directory
C5_Witness ==
    /\ pc = "done"
    /\ <<IdTok[1], ".desktop">> \in DOMAIN desktopFiles
    /\ \E k \in 1..Len(processed) : processed[k].unlink = "ok"
    /\ \E k \in 1..Len(processed) : processed[k].build = "ok"

\* what the loop must attempt for an entry
MustRemove(state) ==
    state.has_desktop /\ (state.has_click => state.click_created > state.desktop_created)
MustBuild(state) ==
    state.has_click /\ (state.has_desktop => state.click_created > state.desktop_created)

\* an action of the loop met a failure
ActionFailed(p) == p.unlink = "fail" \/ p.mkdir = "fail" \/ p.build = "fail"

\* C6: whatever fails, a pass that started ends with status 0 after handling
\* every entry of the merged array, each with its own action: a removal is
\* attempted exactly for the entries that need one, a build for those that
\* need one (unless the desktop directory could not be made).
C6_FailuresNotFatal ==
    /\ pc = "aborted" => argc # 1
    /\ retcode \in {-1, 0}
    /\ pc = "done" =>
         /\ retcode = 0
         /\ Len(processed) = Len(apparray)
         /\ \A k \in 1..Len(apparray) :
               /\ processed[k].app_id = apparray[k].app_id
               /\ MustRemove(apparray[k]) <=> processed[k].unlink # "none"
               /\ MustBuild(apparray[k]) <=>
                     (processed[k].build # "none" \/ processed[k].mkdir = "fail")

\* C6 witness: the pass is over, the action of the first entry failed and
\* the second entry was handled with an operation of its own
C6_Witness ==
    /\ pc = "done" /\ retcode = 0 /\ Len(processed) >= 2
    /\ ActionFailed(processed[1])
    /\ processed[2].unlink # "none" \/ processed[2].build # "none"

\* ========================================================================
\*                      PROPERTIES OF THE LAUNCH TOOL
\* ========================================================================

\* the notifications for the requested app id that were dispatched
SeenRequested == { k \in 1..Len(seen) : seen[k].appid = targv1 }

C8_OthersIgnored ==
    /\ [][ (Len(seen') = Len(seen) + 1 /\ seen'[Len(seen')].appid # global_appid) =>
              (quit' = quit /\ retval' = retval /\ tpc' = tpc) ]_vars
    /\ [][ (launched' /\ ~launched) => observers = Kinds ]_vars
    /\ [][ (quit' /\ ~quit) =>
              (Len(seen') = Len(seen) + 1 /\ seen'[Len(seen')].appid = global_appid) ]_vars
    /\ []( (quit \/ tpc \in {"del_started", "del_focus", "del_failed", "return"}
                 \/ (tpc = "exit" /\ targc >= 2))
              => SeenRequested # {} )

\* C8 witness: every notification of the run was for another app id and was
\* dispatched, and the tool is still blocked in the loop
C8_Witness ==
    /\ tpc = "run" /\ ~quit /\ launched
    /\ emitted = MaxEvents /\ pending = <<>> /\ Len(seen) = MaxEvents
    /\ \A k \in 1..Len(seen) : seen[k].appid # global_appid
    /\ \E k \in 1..Len(seen) : seen[k].kind = "failed"
    /\ \E k \in 1..Len(seen) : seen[k].kind \in GoodKinds

\* ========================================================================
\*                      PROPERTIES OF THE SNAP STORE
\* ========================================================================

\* a name of the form ^[a-zA-Z0-9](-?[a-zA-Z0-9])*$: letters and digits,
\* single hyphens only between them
WellFormedAppname(s) ==
    /\ Len(s) >= 1
    /\ \A k \in 1..Len(s) : IsAlnum(s[k]) \/ s[k] = "-"
    /\ IsAlnum(s[1]) /\ IsAlnum(s[Len(s)])
    /\ \A k \in 1..(Len(s) - 1) : ~(s[k] = "-" /\ s[k+1] = "-")

\* C9: hasAppId returns false without a single pkgInfo query when the
\* package is empty, the version is empty or the appname is not well formed;
\* it issues a query (one) only when all three checks pass.
C9_RejectWithoutQuery ==
    sop = "hasAppId" =>
        /\ (sargs.package = "" \/ sargs.version = "" \/ ~WellFormedAppname(sargs.appname))
              => (sresult = [kind |-> "bool", val |-> "false"] /\ squeries = 0)
        /\ squeries > 0 =>
              (squeries = 1 /\ sargs.package # "" /\ sargs.version # ""
                            /\ WellFormedAppname(sargs.appname))

\* C9 witness: hasAppId rejected an AppID of a known package, with a well
\* formed appname the package has, only for its empty version
C9_Witness ==
    /\ sop = "hasAppId" /\ sargs.package = "p" /\ sargs.version = ""
    /\ snapdInfo["p"].found /\ sargs.appname \in snapdInfo["p"].appnames
    /\ sresult = [kind |-> "bool", val |-> "false"] /\ squeries = 0

\* C10: hasAppId, verifyPackage, verifyAppname and findVersion answer a
\* daemon error of the pkgInfo query with their negative result (false, the
\* empty Version) and never with an exception.
C10_ErrorsCollapse ==
    (sop \in {"hasAppId", "verifyPackage", "verifyAppname", "findVersion"} /\ serror) =>
        /\ sresult.kind # "exception"
        /\ sresult.kind = "bool" => sresult.val = "false"
        /\ sresult.kind = "version" => sresult.val = ""

\* ========================================================================
\*                 PROPERTIES OF THE SNAP STORE: findAppname, list
\* ========================================================================

\* what the daemon holds for the package asked about
AskedInfo == IF sargs.package \in DOMAIN snapdInfo THEN snapdInfo[sargs.package] ELSE NoInfo
NameLeq(x, y) == x = y \/ NameLess(x, y)

\* C11: findAppname, answered by the daemon, fails when the package has no
\* metadata, when its app set is empty and for ONLY_LISTED when the set does
\* not hold exactly one name; otherwise it returns a name of the set, the
\* least for FIRST_LISTED, the greatest for LAST_LISTED, the sole one for
\* ONLY_LISTED, and with one candidate every wildcard returns that candidate.
C11_FindAppname ==
    (sop = "findAppname" /\ ~serror) =>
        LET names == AskedInfo.appnames
        IN  IF \/ ~AskedInfo.found
               \/ names = {}
               \/ (scard = "ONLY_LISTED" /\ Cardinality(names) # 1)
            THEN sresult.kind = "exception" /\ svalue = <<>>
            ELSE /\ sresult.kind = "appname"
                 /\ svalue \in names
                 /\ scard = "FIRST_LISTED" => \A n \in names : NameLeq(svalue, n)
                 /\ scard = "LAST_LISTED" => \A n \in names : NameLeq(n, svalue)
                 /\ scard = "ONLY_LISTED" => names = {svalue}
                 /\ Cardinality(names) = 1 => names = {svalue}

\* FIRST_LISTED answered from a set of several names
C11_Witness ==
    /\ sop = "findAppname" /\ ~serror /\ scard = "FIRST_LISTED"
    /\ Cardinality(AskedInfo.appnames) >= 2
    /\ sresult.kind = "appname"
    /\ svalue = <<"a">>

\* the positions of the list that hold a handle of the AppID
PositionsOf(id) == { k \in 1..Len(svalue) : svalue[k].appId = id }
\* the interfaces the daemon reports the AppID for, all and those it builds under
ReportedFor(id) == { f \in Interfaces : id \in snapApps[f] }
BuildableFor(id) == { f \in ReportedFor(id) : <<id, f>> \notin snapBroken }

\* C12: list asks the daemon once for each interface of the two groups; the
\* sequence it returns is strictly ascending in AppID order, no two handles
\* share an AppID, and an application reported for several interfaces (and
\* buildable for one of them) appears exactly once.
C12_ListOrderedUnique ==
    sop = "list" =>
        /\ Len(sifaces) = Cardinality(Interfaces)
        /\ \A f \in Interfaces : Cardinality({ k \in 1..Len(sifaces) : sifaces[k] = f }) = 1
        /\ \A j, k \in 1..Len(svalue) : j < k => AppIDLess(svalue[j].appId, svalue[k].appId)
        /\ \A j, k \in 1..Len(svalue) : svalue[j].appId = svalue[k].appId => j = k
        /\ \A id \in ListAppIDs :
              (Cardinality(ReportedFor(id)) >= 2 /\ BuildableFor(id) # {})
                  => Cardinality(PositionsOf(id)) = 1

\* an application of both groups listed once, next to another application
C12_Witness ==
    /\ sop = "list"
    /\ Len(svalue) >= 2
    /\ \E id \in ListAppIDs :
          /\ {"unity8", "x11"} \subseteq BuildableFor(id)
          /\ Cardinality(PositionsOf(id)) = 1

\* C13: when a handle cannot be built, list still returns; every candidate
\* the daemon reported for an interface under which its handle builds is in
\* the result, and every handle of the result was built for an interface the
\* daemon reported it for.
C13_FailureDropsOne ==
    sop = "list" =>
        /\ sresult.kind = "list"
        /\ \A id \in ListAppIDs : BuildableFor(id) # {} => PositionsOf(id) # {}
        /\ \A k \in 1..Len(svalue) : svalue[k].interface \in BuildableFor(svalue[k].appId)

\* one candidate fails for every interface and is dropped, another is listed
C13_Witness ==
    /\ sop = "list"
    /\ \E bad, good \in ListAppIDs :
          /\ ReportedFor(bad) # {} /\ BuildableFor(bad) = {}
          /\ PositionsOf(bad) = {}
          /\ "unity8" \in ReportedFor(bad) /\ "unity8" \in BuildableFor(good)
          /\ AppIDLess(bad, good)
          /\ PositionsOf(good) # {}

\* ========================================================================
\*                      PROPERTIES OF THE ICON FINDER
\* ========================================================================

\* the directory holds a file that satisfies the icon name: the file of that
\* name when the name has an image extension, else the name with one added
HoldsIcon(dir, iconName) ==
    IF iconName # <<>> /\ iconName[Len(iconName)] \in {".png", ".svg", ".xpm"}
    THEN Exists(StripTrail(dir) \o <<"/">> \o iconName)
    ELSE \E ext \in {".png", ".svg", ".xpm"} :
            Exists(StripTrail(dir) \o <<"/">> \o iconName \o <<ext>>)

\* the path names a file directly inside the directory
LocatedIn(path, dir) ==
    LET d == StripTrail(dir) \o <<"/">>
    IN  /\ Len(path) > Len(d)
        /\ SubSeq(path, 1, Len(d)) = d
        /\ \A k \in (Len(d) + 1)..Len(path) : path[k] # "/"

IsExplicit(iconName) == iconName # <<>> /\ iconName[1] = "/"

\* the search directories holding the icon asked for, all and those of a
\* size above zero
Holding == { k \in 1..Len(searchPaths) : HoldsIcon(searchPaths[k].path, iname) }
HoldingSized == { k \in Holding : searchPaths[k].size > 0 }
Hicolor128 == BasePath \o HICOLOR_THEME_DIR \o <<"/", "128", "x", "128", "/", "apps">>

\* no search directory holding the icon is of a size above 128
NoneAbove128 == \A k \in Holding : searchPaths[k].size <= 128

\* the result lies in a directory of the set that is of the greatest size
InLargestOf(candidates) ==
    \E k \in candidates :
        /\ \A j \in candidates : searchPaths[j].size <= searchPaths[k].size
        /\ LocatedIn(iresult.path, searchPaths[k].path)

\* C14 as claimed: find of an icon name returns a file of the search
\* directory of the greatest size among all search directories that hold the
\* icon; with the directories of sizes 16, 32, 48 and 128 each holding f.png
\* (and none above), find("f") returns the file of the 128 directory.
C14_LargestWins ==
    (iop = "find" /\ ~IsExplicit(iname)) =>
        /\ Holding # {} => (iresult.kind = "path" /\ InLargestOf(Holding))
        /\ (iname = Icon /\ HoldsIcon(Hicolor128, Icon) /\ NoneAbove128)
              => iresult.path = Hicolor128 \o <<"/">> \o IconPng

\* C14 amended: the same among the search directories of a size above zero;
\* when no such directory holds the icon, find returns the empty path, even
\* if a directory of size zero holds it.
C14_LargestOfSized ==
    (iop = "find" /\ ~IsExplicit(iname)) =>
        /\ iresult.kind = "path"
        /\ HoldingSized # {} => InLargestOf(HoldingSized)
        /\ HoldingSized = {} => iresult.path = <<>>
        /\ (iname = Icon /\ HoldsIcon(Hicolor128, Icon) /\ NoneAbove128)
              => iresult.path = Hicolor128 \o <<"/">> \o IconPng

\* directories of sizes 16, 32, 48 and 128 each hold f.png, find("f") is
\* answered from the 128 directory
C14_Witness ==
    /\ iop = "find" /\ iname = Icon
    /\ \A n \in { <<"16", "x", "16">>, <<"32", "x", "32">>, <<"48", "x", "48">>,
                   <<"128", "x", "128">> } :
          \E k \in Holding :
              searchPaths[k].path = BasePath \o HICOLOR_THEME_DIR \o <<"/">> \o n \o <<"/", "apps">>
    /\ iresult.path = Hicolor128 \o <<"/">> \o IconPng

\* C15 as claimed: find returns; a path it returns that is not empty names a
\* file that exists, so a path given that does not exist is never the result.
C15_ExistingOrEmpty ==
    iop = "find" =>
        /\ iresult.kind = "path"
        /\ iresult.path # <<>> => Exists(iresult.path)

\* the last component of a path
Basename(path) ==
    LET cut == find_last_of(path, npos) IN SubSeq(path, cut + 1, Len(path))

\* C17 as claimed: when none of the explicit attempts resolves an explicit
\* path, find answers as the size-ranked search for its last component does.
C17_FallbackBareName ==
    (iop = "find" /\ IsExplicit(iname) /\ tryFindExplicitFile(ibase, iname) = Found(<<>>)) =>
        \/ iresult.path = <<>> /\ \A k \in 1..Len(searchPaths) :
               searchPaths[k].size > 0 => ~HoldsIcon(searchPaths[k].path, Basename(iname))
        \/ \E k \in 1..Len(searchPaths) :
               /\ HoldsIcon(searchPaths[k].path, Basename(iname))
               /\ LocatedIn(iresult.path, searchPaths[k].path)

\* ========================================================================
\*              PROPERTIES OF REPEATED AND CONCURRENT PASSES
\* ========================================================================

\* C18: a pass that follows a pass in which every action succeeded, over
\* unchanged click entries and itself free of I/O failure, changes nothing
\* in the desktop directory.
C18_Idempotent ==
    [][(pass = 2 /\ prevok /\ faults' = 0)
          => (desktopFiles' = desktopFiles /\ desktopKind' = desktopKind)]_vars

\* C16: when both of two concurrent passes have returned, the desktop
\* directory holds a set of files that one pass alone leaves when started on
\* the same directories.
C16_RaceSameFiles ==
    (\A p \in Procs : rproc[p].pc = "done") => DOMAIN desktopFiles \in AloneNames

\* both passes decided to update the same entry, the steps were interleaved
\* and the file is there at the end
C16_Witness ==
    /\ \A p \in Procs : rproc[p].pc = "done"
    /\ \A p \in Procs : \E k \in 1..Len(rproc[p].apparray) :
          /\ rproc[p].apparray[k].app_id = <<IdTok[1]>>
          /\ ActionOf(rproc[p].apparray[k]) = "update"
    /\ DesktopFileName(<<IdTok[1]>>) \in DOMAIN desktopFiles
    /\ desktopFiles[DesktopFileName(<<IdTok[1]>>)].ctime = MaxTime + 2

====
